---- MODULE Spec2Model ----
(***************************************************************************)
(* Battery tray icon (src-tauri/src/main.rs): the icon generator           *)
(* (build_text, measure_text, find_scale_for_width, compute_position,      *)
(* render_icon, generate_icon), the battery monitor thread, the capacity-1 *)
(* tokio mpsc channel and the tray updater task.                           *)
(*                                                                         *)
(* Two next-state relations over one set of variables:                     *)
(*   Spec / SpecLive  the monitor thread, the channel and the updater task *)
(*   SpecIcon         one pass of the updater's loop body with             *)
(*                    generate_icon unfolded statement by statement, and   *)
(*                    find_scale_for_width called on its own               *)
(* f32 scales are the integers scale * ScaleUnit; every value the          *)
(* bisection produces is a multiple of 1/4096 below 2^24 and therefore     *)
(* exact in f32. Widths and heights are exact rationals over the common    *)
(* denominator Den(font) (f32 rounding of the advance sum is not modelled).*)
(***************************************************************************)
EXTENDS Integers, Sequences, FiniteSets, TLC

\* Option<T>: None is the empty tuple, Some(v) the one-element tuple
NONE == <<>>
Some(v) == <<v>>
IsSome(o) == o # <<>>
Unwrap(o) == o[1]

\* ------------------------------------------------------------ constants
SIZE == 64
FULL_ABOVE == 97
MAX_PERCENTAGE == 100
LOW_START == 1
HIGH_START == 200
TOLERANCE_DEN == 10
CAPACITY == 1

ScaleUnit == 2 ^ 12

\* ---------------------------------------------------------------- bounds
\* percentages offered to generate_icon run up to MAX_PERCENTAGE + OverRange
OverRange == 1
\* devices one battery query lists
MaxDevices == 2

\* ------------------------------------------------------- battery::State
BatteryStates == {"Unknown", "Charging", "Discharging", "Empty", "Full"}

\* ------------------------------------------------------------ text
DigitChars == <<"0", "1", "2", "3", "4", "5", "6", "7", "8", "9">>

DigitChar(d) == DigitChars[d + 1]

RECURSIVE Decimal(_)
\* format!("{n}") of a u32: most significant digit first, no padding
Decimal(n) ==
    IF n < 10 THEN <<DigitChar(n)>>
    ELSE Append(Decimal(n \div 10), DigitChar(n % 10))

SMILEY == <<"^", "_", "^">>

build_text_full_state(percentage, charging) ==
    IF percentage > FULL_ABOVE THEN SMILEY
    ELSE IF charging THEN Append(Decimal(percentage), "*")
    ELSE Decimal(percentage)

build_text(percentage, charging) ==
    CASE charging /\ percentage > FULL_ABOVE -> SMILEY
      [] charging /\ ~(percentage > FULL_ABOVE) -> Append(Decimal(percentage), "*")
      [] ~charging -> Decimal(percentage)

\* ------------------------------------------------------------ font
\* A font is its metrics in font units: the horizontal advance of a glyph
\* (ComicMono is monospaced), the ascent, and height = ascent - descent,
\* by which ab_glyph divides the scale. kind "arbitrary" stands for a font
\* whose advances are unconstrained: measure_text may return any width.
LinearFonts ==
    { [kind |-> "linear", adv |-> a, asc |-> 800, height |-> 1000] : a \in {500, 550, 600} }

ZeroFont == [kind |-> "linear", adv |-> 0, asc |-> 800, height |-> 1000]

ArbitraryFont == [kind |-> "arbitrary", adv |-> 0, asc |-> 800, height |-> 1000]

Fonts == LinearFonts \cup {ZeroFont, ArbitraryFont}

NominalFont == [kind |-> "linear", adv |-> 550, asc |-> 800, height |-> 1000]

\* denominator of every measured width and height
Den(font) == font.height * ScaleUnit

RECURSIVE AdvanceSum(_, _)
\* text.chars().map(|c| h_advance_unscaled(glyph_id(c))).sum()
AdvanceSum(text, font) ==
    IF text = <<>> THEN 0 ELSE font.adv + AdvanceSum(Tail(text), font)

\* measure_text(text, scale).0 * Den(font), for a font of known metrics
WidthNum(text, scale, font) == AdvanceSum(text, font) * scale

\* measure_text(text, scale).1 * Den(font)
HeightNum(scale, font) == font.asc * scale

\* the widths measure_text may return (times Den(font)): the sum over no
\* characters is 0 under any font
MeasuredWidths(text, scale, font) ==
    IF font.kind = "arbitrary" /\ text # <<>> THEN {0, SIZE * Den(font)}
    ELSE {WidthNum(text, scale, font)}

\* ------------------------------------------------------------ bisection
Mid(lo, hi) == (lo + hi) \div 2

LoopCond_loose(lo, hi) == (hi - lo) * TOLERANCE_DEN > 4 * ScaleUnit

\* while high - low > TOLERANCE
LoopCond(lo, hi) == (hi - lo) * TOLERANCE_DEN > ScaleUnit

Narrow_swapped(lo, hi, w, font) ==
    IF w < SIZE * Den(font) THEN [low |-> lo, high |-> Mid(lo, hi)]
    ELSE [low |-> Mid(lo, hi), high |-> hi]

\* if width < SIZE { low = mid } else { high = mid }
Narrow(lo, hi, w, font) ==
    IF w < SIZE * Den(font) THEN [low |-> Mid(lo, hi), high |-> hi]
    ELSE [low |-> lo, high |-> Mid(lo, hi)]

\* the while loop from the interval iv = <<low, high>> on, then
\* PxScale::from((low + high) / 2.0)
Bisect(text, font, lo, hi) ==
    LET loop[iv \in Int \X Int] ==
            IF LoopCond(iv[1], iv[2])
            THEN LET nb == Narrow(iv[1], iv[2], WidthNum(text, Mid(iv[1], iv[2]), font), font)
                 IN  loop[<<nb.low, nb.high>>]
            ELSE Mid(iv[1], iv[2])
    IN  loop[<<lo, hi>>]

find_scale_for_width(text, font) ==
    Bisect(text, font, LOW_START * ScaleUnit, HIGH_START * ScaleUnit)

\* ------------------------------------------------------------ position
\* f32 -> i32 cast of num/den (den > 0): truncation toward zero
TruncDiv(num, den) ==
    IF num >= 0 THEN num \div den ELSE -((-num) \div den)

\* "as i32"
AsI32(num, den) == TruncDiv(num, den)

\* ((SIZE - width) / 2.0) as i32, ((SIZE - height) / 2.0) as i32
compute_position(wnum, hnum, font) ==
    [x |-> AsI32(SIZE * Den(font) - wnum, 2 * Den(font)),
     y |-> AsI32(SIZE * Den(font) - hnum, 2 * Den(font))]

\* the rasterized, ICO-encoded image is a function of what is drawn where
render_icon(x, y, scale, text) == [text |-> text, scale |-> scale, x |-> x, y |-> y]

VALIDATION_ERROR == "Battery percentage must be between 0 and 100"
RENDER_ERROR == "Failed to render icon"

\* Result<Image>
Ok(icon) == [ok |-> TRUE, err |-> "", icon |-> Some(icon)]
Err(e) == [ok |-> FALSE, err |-> e, icon |-> NONE]

in_range_unchecked(percentage) == TRUE

\* (0..=100).contains(&percentage)
in_range(percentage) == 0 <= percentage /\ percentage <= MAX_PERCENTAGE

\* generate_icon as one call; encodeOk: whether ICO encoding succeeds
generate_icon(percentage, charging, font, encodeOk) ==
    IF ~in_range(percentage) THEN Err(VALIDATION_ERROR)
    ELSE LET text == build_text(percentage, charging)
             scale == find_scale_for_width(text, font)
             pos == compute_position(WidthNum(text, scale, font), HeightNum(scale, font), font)
         IN  IF encodeOk THEN Ok(render_icon(pos.x, pos.y, scale, text))
             ELSE Err(RENDER_ERROR)

charging_flag_full_too(state) == state \in {"Charging", "Full"}

\* state == State::Charging
charging_flag(state) == state = "Charging"

\* the tooltip match of the updater
tooltip_of(percentage, state) ==
    CASE state = "Charging" -> <<"Charging: ">> \o Decimal(percentage) \o <<"%">>
      [] state = "Discharging" -> <<"Discharging: ">> \o Decimal(percentage) \o <<"%">>
      [] state = "Full" -> <<"Full">>
      [] OTHER -> <<"Unhandled state: ">> \o Decimal(percentage) \o <<"%">>

\* ------------------------------------------------------------ battery source
\* state_of_charge() of a device, in thousandths; 1010 is a source reporting
\* more than its full capacity
SocValues == {420, 424, 1010}

\* (state_of_charge().value * 100.0).round() as u32
percentage_of(soc) == (soc + 5) \div 10

\* the states the modelled source reports
SourceStates == {"Charging", "Discharging", "Full"}

Devices == [soc : SocValues, state : SourceStates]

\* what one entry of the listing yields: None for an Err, or a battery
DeviceResults == {NONE} \cup { Some(d) : d \in Devices }

Sample(p, st) == [percentage |-> p, state |-> st]

\* what one iteration of the monitor loop reads
QueryErr == [outcome |-> "QueryErr", sample |-> NONE]
NoDevice == [outcome |-> "NoDevice", sample |-> NONE]
NotPolled == [outcome |-> "NotPolled", sample |-> NONE]
Read(smp) == [outcome |-> "Device", sample |-> Some(smp)]

\* let percentage = ...; let state = battery.state();
sample_of(battery) == Sample(percentage_of(battery.soc), battery.state)

SamplePairs == { Sample(percentage_of(s), st) : s \in SocValues, st \in SourceStates }

\* ------------------------------------------------------------ state
VARIABLES
    \* battery monitor thread
    spc,          \* "init", "poll", "send" (inside blocking_send), "sleep", "panicked"
    panicMsg,     \* the message of the monitor thread's panic, "" for none
    last,         \* last_battery_info: Option<(u32, State)>
    polled,       \* what the latest iteration read from the battery source
    remaining,    \* entries the batteries iterator has still to yield
    \* channel(1)
    chan,         \* the buffered samples, oldest first
    \* tray updater task
    upc,          \* "init", "recv", "generate", "lock", "set_icon", "set_tooltip", "unlock", "ended", "panicked"
    cur,          \* the sample bound by the while-let
    result,       \* the Result of generate_icon
    tip,          \* the tooltip string
    setIconRes,   \* what set_icon returned for the current sample
    setTipRes,    \* what set_tooltip returned for the current sample
    log,          \* the distinct lines the updater has printed to stderr
    \* tray surface behind Arc<Mutex<TrayIcon>>
    trayLocked, trayIcon, trayTooltip,
    \* the icon generator
    font,
    \* one pass through generate_icon, statement by statement
    entry, gpc, percentage, bstate, charging, text, low, high, iters, scale, pos

monitorVars == <<spc, panicMsg, last, polled, remaining>>
updaterVars == <<upc, cur, setIconRes, setTipRes, log>>
trayVars == <<trayLocked, trayIcon, trayTooltip>>
passVars == <<entry, gpc, percentage, bstate, charging, text, low, high, iters, scale, pos>>
vars == <<monitorVars, chan, updaterVars, result, tip, trayVars, font, passVars>>

PassIdle ==
    /\ entry = "none" /\ gpc = "idle" /\ percentage = 0 /\ bstate = "Unknown"
    /\ charging = FALSE /\ text = NONE /\ low = 0 /\ high = 0
    /\ iters = 0 /\ scale = NONE /\ pos = NONE

Init ==
    /\ spc = "init" /\ panicMsg = "" /\ last = NONE /\ polled = NotPolled /\ remaining = 0
    /\ chan = <<>>
    /\ upc = "init" /\ cur = NONE /\ result = NONE /\ tip = NONE
    /\ setIconRes = "None" /\ setTipRes = "None" /\ log = {}
    /\ trayLocked = FALSE /\ trayIcon = NONE /\ trayTooltip = NONE
    /\ font = NominalFont
    /\ PassIdle

\* the receiver is dropped when the updater task is over
rxClosed == upc \in {"ended", "panicked"}

\* the only sender is dropped when the monitor thread is over
txDropped == spc = "panicked"

\* ------------------------------------------------------------ battery monitor
\* Manager::new().expect("Failed to initialize battery manager")
MonitorStart(ok) ==
    /\ spc = "init"
    /\ IF ok THEN spc' = "poll" /\ panicMsg' = panicMsg
       ELSE spc' = "panicked" /\ panicMsg' = "Failed to initialize battery manager"
    /\ UNCHANGED <<last, polled, remaining, chan, updaterVars, result, tip, trayVars, font, passVars>>

differs_always(sample, remembered) == TRUE

differs_percentage_only(sample, remembered) ==
    remembered = NONE \/ Unwrap(sample).percentage # Unwrap(remembered).percentage

\* Some((percentage, state)) != last_battery_info
differs(sample, remembered) == sample # remembered

\* if let Ok(batteries) = manager.batteries(): an Err skips the iteration;
\* Ok is a lazy iterator over n entries
Query(ok, n) ==
    /\ spc = "poll"
    /\ IF ok THEN spc' = "scan" /\ remaining' = n /\ polled' = NotPolled
       ELSE spc' = "sleep" /\ remaining' = 0 /\ polled' = QueryErr
    /\ UNCHANGED <<panicMsg, last, chan, updaterVars, result, tip, trayVars, font, passVars>>

\* batteries.flatten().next() found nothing: the iterator is exhausted
ScanEnd ==
    /\ spc = "scan" /\ remaining = 0
    /\ polled' = NoDevice
    /\ spc' = "sleep"
    /\ UNCHANGED <<panicMsg, last, remaining, chan, updaterVars, result, tip, trayVars, font, passVars>>

\* batteries.flatten().next() pulls one entry r: an Err is skipped, the
\* first battery is taken, compared with last_battery_info and remembered
Scan(r) ==
    /\ spc = "scan" /\ remaining > 0
    /\ IF r = NONE
       THEN /\ remaining' = remaining - 1
            /\ UNCHANGED <<spc, polled, last>>
       ELSE /\ remaining' = 0
            /\ polled' = Read(sample_of(Unwrap(r)))
            /\ IF differs(Some(sample_of(Unwrap(r))), last)
               THEN last' = Some(sample_of(Unwrap(r))) /\ spc' = "send"
               ELSE last' = last /\ spc' = "sleep"
    /\ UNCHANGED <<panicMsg, chan, updaterVars, result, tip, trayVars, font, passVars>>

Send_unbounded ==
    /\ spc = "send"
    /\ IF rxClosed
       THEN spc' = "panicked" /\ panicMsg' = "Failed to send battery info" /\ chan' = chan
       ELSE /\ chan' = Append(chan, Unwrap(last))
            /\ spc' = "sleep" /\ panicMsg' = panicMsg
    /\ UNCHANGED <<last, polled, remaining, updaterVars, result, tip, trayVars, font, passVars>>

\* tx.blocking_send((percentage, state)).expect("Failed to send battery info"):
\* waits for a free slot; Err once the receiver is closed
Send ==
    /\ spc = "send"
    /\ IF rxClosed
       THEN spc' = "panicked" /\ panicMsg' = "Failed to send battery info" /\ chan' = chan
       ELSE /\ Len(chan) < CAPACITY
            /\ chan' = Append(chan, Unwrap(last))
            /\ spc' = "sleep" /\ panicMsg' = panicMsg
    /\ UNCHANGED <<last, polled, remaining, updaterVars, result, tip, trayVars, font, passVars>>

\* thread::sleep(Duration::from_secs(1))
Sleep ==
    /\ spc = "sleep"
    /\ spc' = "poll"
    /\ UNCHANGED <<panicMsg, last, polled, remaining, chan, updaterVars, result, tip, trayVars, font, passVars>>

\* ------------------------------------------------------------ tray updater
\* BatteryIconGenerator::new().unwrap(); a panic drops the receiver and
\* whatever the channel still buffers
UpdaterStart(fontOk) ==
    /\ upc = "init"
    /\ IF fontOk THEN upc' = "recv" /\ chan' = chan
       ELSE upc' = "panicked" /\ chan' = <<>>
    /\ UNCHANGED <<monitorVars, cur, setIconRes, setTipRes, log, result, tip, trayVars, font, passVars>>

\* rx.recv().await: the oldest buffered sample; None once the sender is
\* dropped and the buffer is empty, which ends the loop and the task
Recv ==
    /\ upc = "recv"
    /\ IF chan # <<>>
       THEN cur' = Some(Head(chan)) /\ chan' = Tail(chan) /\ upc' = "generate"
       ELSE txDropped /\ cur' = cur /\ chan' = chan /\ upc' = "ended"
    /\ UNCHANGED <<monitorVars, setIconRes, setTipRes, log, result, tip, trayVars, font, passVars>>

\* if let Ok(icon) = generate_icon(percentage, state == Charging).await,
\* then the tooltip match
Generate(encodeOk) ==
    /\ upc = "generate"
    /\ LET smp == Unwrap(cur)
           r == generate_icon(smp.percentage, charging_flag(smp.state), font, encodeOk)
       IN  /\ result' = Some(r)
           /\ IF r.ok THEN tip' = Some(tooltip_of(smp.percentage, smp.state)) /\ upc' = "lock"
              ELSE tip' = tip /\ upc' = "recv"
    /\ UNCHANGED <<monitorVars, chan, cur, setIconRes, setTipRes, log, trayVars, font, passVars>>

\* tray.lock().await
Lock ==
    /\ upc = "lock"
    /\ ~trayLocked
    /\ trayLocked' = TRUE
    /\ upc' = "set_icon"
    /\ UNCHANGED <<monitorVars, chan, cur, setIconRes, setTipRes, log, result, tip, trayIcon, trayTooltip, font, passVars>>

SetIcon_bails(ok) ==
    /\ upc = "set_icon"
    /\ IF ok THEN trayIcon' = Unwrap(result).icon /\ log' = log /\ setIconRes' = "Ok" /\ upc' = "set_tooltip"
       ELSE /\ trayIcon' = trayIcon
            /\ log' = log \cup {"Failed to update tray icon"}
            /\ setIconRes' = "Err"
            /\ upc' = "unlock"
    /\ UNCHANGED <<monitorVars, chan, cur, setTipRes, result, tip, trayLocked, trayTooltip, font, passVars>>

\* tray.set_icon(Some(icon)), an Err printed to stderr
SetIcon(ok) ==
    /\ upc = "set_icon"
    /\ IF ok THEN trayIcon' = Unwrap(result).icon /\ log' = log /\ setIconRes' = "Ok"
       ELSE /\ trayIcon' = trayIcon
            /\ log' = log \cup {"Failed to update tray icon"}
            /\ setIconRes' = "Err"
    /\ upc' = "set_tooltip"
    /\ UNCHANGED <<monitorVars, chan, cur, setTipRes, result, tip, trayLocked, trayTooltip, font, passVars>>

\* tray.set_tooltip(Some(&tooltip)), an Err printed to stderr
SetTooltip(ok) ==
    /\ upc = "set_tooltip"
    /\ IF ok THEN trayTooltip' = tip /\ log' = log /\ setTipRes' = "Ok"
       ELSE /\ trayTooltip' = trayTooltip
            /\ log' = log \cup {"Failed to update tray tooltip"}
            /\ setTipRes' = "Err"
    /\ upc' = "unlock"
    /\ UNCHANGED <<monitorVars, chan, cur, setIconRes, result, tip, trayLocked, trayIcon, font, passVars>>

\* the MutexGuard, the icon and the tooltip go out of scope
Unlock ==
    /\ upc = "unlock"
    /\ trayLocked' = FALSE
    /\ result' = NONE /\ tip' = NONE /\ setIconRes' = "None" /\ setTipRes' = "None"
    /\ upc' = "recv"
    /\ UNCHANGED <<monitorVars, chan, cur, log, trayIcon, trayTooltip, font, passVars>>

MonitorStep ==
    \/ \E ok \in BOOLEAN : MonitorStart(ok)
    \/ \E ok \in BOOLEAN, n \in 0..MaxDevices : Query(ok, n)
    \/ ScanEnd
    \/ \E r \in DeviceResults : Scan(r)
    \/ Send
    \/ Sleep

UpdaterStep ==
    \/ \E fontOk \in BOOLEAN : UpdaterStart(fontOk)
    \/ Recv
    \/ \E encodeOk \in BOOLEAN : Generate(encodeOk)
    \/ Lock
    \/ \E ok \in BOOLEAN : SetIcon(ok)
    \/ \E ok \in BOOLEAN : SetTooltip(ok)
    \/ Unlock

Next == MonitorStep \/ UpdaterStep

Spec == Init /\ [][Next]_vars

\* ------------------------------------------------------------ SpecLive
\* The same thread and task with the battery manager, the font, the queries,
\* the encoding and the tray calls all succeeding, each scheduled fairly.
\* a listing in which some entry is readable
ScanLive(r) == (r = NONE => remaining > 1) /\ Scan(r)

MonitorLive ==
    \/ MonitorStart(TRUE)
    \/ \E n \in 1..MaxDevices : Query(TRUE, n)
    \/ \E r \in DeviceResults : ScanLive(r)
    \/ Send
    \/ Sleep

UpdaterLive ==
    \/ UpdaterStart(TRUE)
    \/ Recv
    \/ Generate(TRUE)
    \/ Lock
    \/ SetIcon(TRUE)
    \/ SetTooltip(TRUE)
    \/ Unlock

NextLive == MonitorLive \/ UpdaterLive

SpecLive == Init /\ [][NextLive]_vars /\ WF_vars(MonitorLive) /\ WF_vars(UpdaterLive)

\* ------------------------------------------------------------ SpecIcon
\* One pass of the updater's loop body for one sample (entry "sample"):
\* the charging flag, generate_icon statement by statement, the tooltip.
\* Entry "find_scale" calls find_scale_for_width alone on a text, under any
\* font, the empty text and the unconstrained font included.
Percentages == 0..(MAX_PERCENTAGE + OverRange)

FitTexts == {<<>>, <<"7">>, <<"4", "2">>, SMILEY}

InitIcon ==
    /\ spc = "init" /\ panicMsg = "" /\ last = NONE /\ polled = NotPolled /\ remaining = 0
    /\ chan = <<>>
    /\ upc = "init" /\ cur = NONE /\ result = NONE /\ tip = NONE
    /\ setIconRes = "None" /\ setTipRes = "None" /\ log = {}
    /\ trayLocked = FALSE /\ trayIcon = NONE /\ trayTooltip = NONE
    /\ low = 0 /\ high = 0 /\ iters = 0 /\ scale = NONE /\ pos = NONE
    /\ charging = FALSE
    /\ \/ /\ entry = "sample" /\ gpc = "call"
          /\ percentage \in Percentages /\ bstate \in BatteryStates
          /\ font \in LinearFonts
          /\ text = NONE
       \/ /\ entry = "find_scale" /\ gpc = "fit_start"
          /\ percentage = 0 /\ bstate = "Unknown"
          /\ font \in Fonts
          /\ text \in { Some(t) : t \in FitTexts }

mainVars == <<monitorVars, chan, updaterVars, trayVars>>

\* the argument expression state == State::Charging
PassCall ==
    /\ gpc = "call"
    /\ charging' = charging_flag(bstate)
    /\ gpc' = "ensure"
    /\ UNCHANGED <<mainVars, result, tip, font, entry, percentage, bstate, text, low, high, iters, scale, pos>>

\* ensure!((0..=100).contains(&percentage), ...): an Err leaves the if-let
PassEnsure ==
    /\ gpc = "ensure"
    /\ IF in_range(percentage) THEN gpc' = "build" /\ result' = result
       ELSE gpc' = "skipped" /\ result' = Some(Err(VALIDATION_ERROR))
    /\ UNCHANGED <<mainVars, tip, font, entry, percentage, bstate, charging, text, low, high, iters, scale, pos>>

\* let text = self.build_text(percentage, charging)
PassBuildText ==
    /\ gpc = "build"
    /\ text' = Some(build_text(percentage, charging))
    /\ gpc' = "fit_start"
    /\ UNCHANGED <<mainVars, result, tip, font, entry, percentage, bstate, charging, low, high, iters, scale, pos>>

\* let mut low = 1.0; let mut high = 200.0
PassFitStart ==
    /\ gpc = "fit_start"
    /\ low' = LOW_START * ScaleUnit /\ high' = HIGH_START * ScaleUnit /\ iters' = 0
    /\ gpc' = "fit"
    /\ UNCHANGED <<mainVars, result, tip, font, entry, percentage, bstate, charging, text, scale, pos>>

\* one iteration of the while loop
PassFitStep ==
    /\ gpc = "fit"
    /\ LoopCond(low, high)
    /\ \E w \in MeasuredWidths(Unwrap(text), Mid(low, high), font) :
          LET nb == Narrow(low, high, w, font)
          IN  low' = nb.low /\ high' = nb.high
    /\ iters' = iters + 1
    /\ UNCHANGED <<mainVars, result, tip, font, entry, gpc, percentage, bstate, charging, text, scale, pos>>

\* the loop is left: PxScale::from((low + high) / 2.0)
PassFitExit ==
    /\ gpc = "fit"
    /\ ~LoopCond(low, high)
    /\ scale' = Some(Mid(low, high))
    /\ gpc' = IF entry = "find_scale" THEN "returned" ELSE "position"
    /\ UNCHANGED <<mainVars, result, tip, font, entry, percentage, bstate, charging, text, low, high, iters, pos>>

\* let (width, height) = measure_text(&text, scale); compute_position
PassPosition ==
    /\ gpc = "position"
    /\ pos' = Some(compute_position(WidthNum(Unwrap(text), Unwrap(scale), font),
                                    HeightNum(Unwrap(scale), font), font))
    /\ gpc' = "render"
    /\ UNCHANGED <<mainVars, result, tip, font, entry, percentage, bstate, charging, text, low, high, iters, scale>>

\* render_icon(x, y, scale, &text).context("Failed to render icon")
PassRender(encodeOk) ==
    /\ gpc = "render"
    /\ IF encodeOk
       THEN /\ result' = Some(Ok(render_icon(Unwrap(pos).x, Unwrap(pos).y, Unwrap(scale), Unwrap(text))))
            /\ gpc' = "tooltip"
       ELSE /\ result' = Some(Err(RENDER_ERROR))
            /\ gpc' = "skipped"
    /\ UNCHANGED <<mainVars, tip, font, entry, percentage, bstate, charging, text, low, high, iters, scale, pos>>

\* let tooltip = match state { ... }
PassTooltip ==
    /\ gpc = "tooltip"
    /\ tip' = Some(tooltip_of(percentage, bstate))
    /\ gpc' = "apply"
    /\ UNCHANGED <<mainVars, result, font, entry, percentage, bstate, charging, text, low, high, iters, scale, pos>>

NextIcon ==
    \/ PassCall
    \/ PassEnsure
    \/ PassBuildText
    \/ PassFitStart
    \/ PassFitStep
    \/ PassFitExit
    \/ PassPosition
    \/ \E encodeOk \in BOOLEAN : PassRender(encodeOk)
    \/ PassTooltip

SpecIcon == InitIcon /\ [][NextIcon]_vars

\* the statement-by-statement pass and the one-call generate_icon agree
PassAgreesWithCall ==
    (entry = "sample" /\ gpc \in {"tooltip", "apply", "skipped"})
        => \E e \in BOOLEAN : result = Some(generate_icon(percentage, charging, font, e))

TypeOK ==
    /\ spc \in {"init", "poll", "scan", "send", "sleep", "panicked"}
    /\ upc \in {"init", "recv", "generate", "lock", "set_icon", "set_tooltip", "unlock", "ended", "panicked"}
    /\ last \in {NONE} \cup { Some(x) : x \in SamplePairs }
    /\ cur \in {NONE} \cup { Some(x) : x \in SamplePairs }
    /\ chan \in {<<>>} \cup { <<x>> : x \in SamplePairs }
    /\ remaining \in 0..MaxDevices
    /\ trayLocked \in BOOLEAN

\* ============================================================ properties
IsDigit(c) == \E d \in 0..9 : c = DigitChar(d)

DigitsOnly(t) == \A i \in 1..Len(t) : IsDigit(t[i])

DigitValue(c) == CHOOSE d \in 0..9 : DigitChar(d) = c

RECURSIVE ParseDecimal(_)
\* the number a digit string denotes
ParseDecimal(t) ==
    IF t = <<>> THEN 0
    ELSE ParseDecimal(SubSeq(t, 1, Len(t) - 1)) * 10 + DigitValue(t[Len(t)])

\* t is the decimal numeral of n, without sign, padding or leading zeros
IsDecimalOf(t, n) ==
    /\ Len(t) >= 1 /\ DigitsOnly(t)
    /\ (Len(t) > 1 => t[1] # "0")
    /\ ParseDecimal(t) = n

\* C1: for every percentage in 0..=100 and every charging flag the text
\* build_text returns is fixed by exactly one rule: "^_^" when charging and
\* percentage > 97, the decimal percentage followed by "*" when charging and
\* percentage <= 97, the bare decimal percentage when not charging; "^_^" is
\* never the text of a non-charging input and a digit string never the text
\* of charging with 98..=100.
C1_BuildTextRules ==
    (entry = "sample" /\ IsSome(text)) =>
        LET t == Unwrap(text)
        IN  /\ percentage \in 0..100
            /\ (charging /\ percentage > 97) => (t = <<"^", "_", "^">> /\ ~DigitsOnly(t))
            /\ (charging /\ percentage <= 97) =>
                   /\ Len(t) >= 2 /\ t[Len(t)] = "*"
                   /\ IsDecimalOf(SubSeq(t, 1, Len(t) - 1), percentage)
            /\ (~charging) => (IsDecimalOf(t, percentage) /\ t # <<"^", "_", "^">>)

C1_Witness ==
    /\ entry = "sample" /\ charging /\ percentage = 97
    /\ text = Some(<<"9", "7", "*">>)

\* the width of a text proportional to the scale crosses SIZE inside
\* [LOW_START, HIGH_START]
Crosses(t, f) ==
    /\ f.kind = "linear" /\ t # <<>>
    /\ WidthNum(t, LOW_START * ScaleUnit, f) < 64 * Den(f)
    /\ WidthNum(t, HIGH_START * ScaleUnit, f) >= 64 * Den(f)

\* C8 as stated: for a non-empty text whose width crosses 64 inside
\* [1.0, 200.0], the returned scale s has width(text, s) < 64, some scale at
\* most 0.1 above s has width >= 64, and the horizontal origin is not negative.
C8_ReturnedWidthBelowSize ==
    (IsSome(text) /\ IsSome(scale) /\ Crosses(Unwrap(text), font)) =>
        LET s == Unwrap(scale)
            t == Unwrap(text)
        IN  /\ WidthNum(t, s, font) < 64 * Den(font)
            /\ \E s2 \in s..(s + ScaleUnit \div 10) : WidthNum(t, s2, font) >= 64 * Den(font)
            /\ IsSome(pos) => Unwrap(pos).x >= 0

\* C8 (amended): for such a text the returned scale s lies at most 0.05
\* above a scale whose width is < 64 and at most 0.1 below a scale whose
\* width is >= 64; the width at s itself stays below 64 + 2, so that the
\* horizontal origin, cast toward zero, is not negative.
C8_ReturnedScaleBrackets ==
    (IsSome(text) /\ IsSome(scale) /\ Crosses(Unwrap(text), font)) =>
        LET s == Unwrap(scale)
            t == Unwrap(text)
        IN  /\ \E s1 \in (s - ScaleUnit \div 20)..s : WidthNum(t, s1, font) < 64 * Den(font)
            /\ \E s2 \in s..(s + ScaleUnit \div 10) : WidthNum(t, s2, font) >= 64 * Den(font)
            /\ WidthNum(t, s, font) < (64 + 2) * Den(font)
            /\ IsSome(pos) => Unwrap(pos).x >= 0

\* a text whose width at the returned scale is not below 64, positioned at x = 0
C8_Witness ==
    /\ IsSome(text) /\ IsSome(scale) /\ IsSome(pos)
    /\ Crosses(Unwrap(text), font)
    /\ WidthNum(Unwrap(text), Unwrap(scale), font) >= 64 * Den(font)
    /\ Unwrap(pos).x = 0

\* C9: the loop of find_scale_for_width ends after exactly 11 iterations
\* whatever widths are measured: it goes on while fewer than 11 iterations
\* are done and is left after the 11th; with the empty text only low moves
\* and the result is within the tolerance 0.1 of the upper bound 200.0.
C9_ElevenIterations ==
    /\ iters <= 11
    /\ gpc = "fit" => (LoopCond(low, high) <=> iters < 11)
    /\ IsSome(scale) => (iters = 11 /\ (high - low) * 10 <= ScaleUnit)
    /\ (gpc = "fit" /\ text = Some(<<>>)) => high = 200 * ScaleUnit
    /\ (IsSome(scale) /\ text = Some(<<>>)) =>
           /\ Unwrap(scale) < 200 * ScaleUnit
           /\ (200 * ScaleUnit - Unwrap(scale)) * 10 <= ScaleUnit

C9_Witness ==
    /\ entry = "find_scale" /\ gpc = "returned" /\ text = Some(<<>>)
    /\ iters = 11 /\ scale = Some(200 * ScaleUnit - 199)

\* some run under the unconstrained font moves both ends of the interval
C9_BothEndsMove ==
    /\ font.kind = "arbitrary" /\ gpc = "returned" /\ iters = 11
    /\ low > ScaleUnit /\ high < 200 * ScaleUnit

\* C10: the updater passes charging = true only for a Charging sample; for
\* every other state and every percentage in 0..=100 the icon text is the
\* bare decimal percentage, also when the state is Full and the tooltip of
\* the same sample is "Full".
C10_OnlyChargingDecorates ==
    /\ (entry = "sample" /\ gpc # "call") => (charging <=> bstate = "Charging")
    /\ (entry = "sample" /\ IsSome(text) /\ bstate # "Charging") =>
           IsDecimalOf(Unwrap(text), percentage)
    /\ (entry = "sample" /\ gpc = "apply" /\ bstate # "Charging") =>
           /\ IsDecimalOf(Unwrap(Unwrap(result).icon).text, percentage)
           /\ bstate = "Full" => tip = Some(<<"Full">>)

C10_Witness ==
    /\ entry = "sample" /\ gpc = "apply" /\ bstate = "Full" /\ percentage = 100
    /\ tip = Some(<<"Full">>)
    /\ Unwrap(Unwrap(result).icon).text = <<"1", "0", "0">>

\* ------------------------------------------------------------ monitor, channel, updater
trayUntouched == trayIcon' = trayIcon /\ trayTooltip' = trayTooltip /\ trayLocked' = trayLocked

\* the step by which an iteration of the monitor loop reads a device
ReadsDevice == spc = "scan" /\ spc' # spc /\ polled'.outcome = "Device"

\* the step by which an iteration finds the query failed or no device readable
ReadsNothing ==
    spc \in {"poll", "scan"} /\ spc' # spc /\ polled'.outcome \in {"QueryErr", "NoDevice"}

\* C2 as stated: an iteration that reads a device whose pair differs from
\* the last pair sent pushes the sample onto the channel: the send it is in
\* ends with the sample appended.
C2_DifferingSampleIsPushed ==
    [][(spc = "send" /\ spc' # "send") => chan' = Append(chan, Unwrap(last))]_vars

\* C2 (amended): an iteration calls blocking_send with a sample iff the
\* query succeeded, a device was readable and the pair of the first readable
\* one differs from the remembered pair, which then becomes that pair (no
\* two consecutive sends carry equal samples); the send appends that sample
\* unless the receiver is closed; an iteration whose query fails or lists no
\* readable device sends nothing, keeps the remembered pair, leaves the tray
\* alone and goes on to sleep.
C2_SendIffFirstReadableDiffers ==
    [][ /\ ReadsDevice =>
              /\ spc' = "send" <=> polled'.sample # last
              /\ spc' = "send" => (last' = polled'.sample /\ last' # last)
              /\ spc' # "send" => (spc' = "sleep" /\ last' = last)
              /\ chan' = chan /\ trayUntouched
        /\ (spc # "send" /\ spc' = "send") => ReadsDevice
        /\ (spc = "scan" /\ spc' = "scan" /\ monitorVars' # monitorVars) =>
              (remaining' < remaining /\ last' = last /\ polled' = polled /\ chan' = chan)
        /\ ReadsNothing =>
              (spc' = "sleep" /\ last' = last /\ chan' = chan /\ trayUntouched)
        /\ Len(chan') > Len(chan) =>
              (spc = "send" /\ ~rxClosed /\ chan' = Append(chan, Unwrap(last)) /\ spc' = "sleep")
        /\ (spc = "send" /\ spc' # "send" /\ ~rxClosed) => chan' = Append(chan, Unwrap(last))
      ]_vars

\* a device whose rounded percentage and state equal the remembered pair was
\* read and nothing was sent, while an earlier sample is on the tray
C2_Witness ==
    /\ spc = "sleep" /\ polled.outcome = "Device" /\ polled.sample = last
    /\ chan = <<>> /\ cur = last /\ upc = "recv" /\ IsSome(trayIcon)

\* C3 as stated: with the receiver closed the monitor stops cleanly, without
\* a panic of its send.
C3_NoPanicOnClosedReceiver ==
    ~(rxClosed /\ spc = "panicked" /\ panicMsg = "Failed to send battery info")

\* C4 as stated: the channel holds at most one sample, a send on the full
\* channel completes only once the updater has received the pending sample,
\* and a sample leaves the channel only by being delivered to the updater.
C4_EverySentSampleDelivered ==
    [][ /\ Len(chan') <= 1
        /\ (spc = "send" /\ Len(chan) = 1) => (spc' = "send" /\ last' = last)
        /\ Len(chan') < Len(chan) =>
              (upc = "recv" /\ cur' = Some(Head(chan)) /\ chan' = Tail(chan))
      ]_vars

\* C4 (amended): the channel holds at most one sample; while it is full and
\* the receiver is open the monitor stays in its send and does nothing else;
\* the channel changes only by a send appending at the tail or by the
\* updater receiving the head, except that the samples still buffered are
\* dropped when the updater task dies and the receiver with it.
C4_CapacityOneFifo ==
    [][ /\ Len(chan') <= 1
        /\ (spc = "send" /\ Len(chan) = 1 /\ ~rxClosed) => monitorVars' = monitorVars
        /\ Len(chan') > Len(chan) =>
              (spc = "send" /\ Len(chan) = 0 /\ chan' = <<Unwrap(last)>>)
        /\ Len(chan') < Len(chan) =>
              \/ upc = "recv" /\ cur' = Some(Head(chan)) /\ chan' = Tail(chan)
              \/ upc = "init" /\ upc' = "panicked" /\ chan' = <<>>
        /\ Len(chan') = Len(chan) => chan' = chan
      ]_vars

\* the monitor is inside a send on the full channel, with a different sample
C4_Witness ==
    /\ spc = "send" /\ Len(chan) = 1 /\ ~rxClosed
    /\ Unwrap(last) # chan[1] /\ upc = "generate"

\* C5: the updater, given a sample whose percentage exceeds 100, gets the
\* validation error from generate_icon, takes no lock, calls neither
\* set_icon nor set_tooltip, leaves icon and tooltip of the tray as they
\* were, and goes back to receiving.
C5_OutOfRangeSkipsUpdate ==
    [][ (upc = "generate" /\ upc' # upc /\ Unwrap(cur).percentage > 100) =>
            /\ result' = Some([ok |-> FALSE, err |-> "Battery percentage must be between 0 and 100", icon |-> <<>>])
            /\ upc' = "recv"
            /\ trayUntouched /\ ~trayLocked
            /\ setIconRes' = "None" /\ setTipRes' = "None" /\ log' = log
            /\ chan' = chan
      ]_vars

\* a 101 % sample has been skipped with an earlier icon still on the tray
C5_Witness ==
    /\ upc = "recv" /\ IsSome(cur) /\ Unwrap(cur).percentage = 101
    /\ IsSome(result) /\ Unwrap(result).err = VALIDATION_ERROR
    /\ IsSome(trayIcon) /\ Unwrap(trayIcon).text = <<"4", "2">>
    /\ ~trayLocked

\* C7: a failed set_icon or set_tooltip is printed and nothing else: after
\* set_icon, failed or not, set_tooltip is called for the same sample; after
\* set_tooltip the lock is released and the updater receives again; a failed
\* call leaves the tray field it was to set, and the other one, as they
\* are; the sample is not put back. The lock is held exactly from the lock
\* to the release and is free while the updater waits on the channel.
C7_FailedMutationLoggedOnly ==
    [][ /\ (upc = "set_icon" /\ upc' # upc) =>
              /\ upc' = "set_tooltip" /\ cur' = cur /\ tip' = tip /\ chan' = chan
              /\ trayLocked' /\ trayTooltip' = trayTooltip
              /\ setIconRes' \in {"Ok", "Err"}
              /\ setIconRes' = "Err" =>
                     (trayIcon' = trayIcon /\ log' = log \cup {"Failed to update tray icon"})
              /\ setIconRes' = "Ok" => (trayIcon' = Unwrap(result).icon /\ log' = log)
        /\ (upc = "set_tooltip" /\ upc' # upc) =>
              /\ upc' = "unlock" /\ cur' = cur /\ chan' = chan
              /\ trayIcon' = trayIcon
              /\ setTipRes' \in {"Ok", "Err"}
              /\ setTipRes' = "Err" =>
                     (trayTooltip' = trayTooltip /\ log' = log \cup {"Failed to update tray tooltip"})
              /\ setTipRes' = "Ok" => (trayTooltip' = tip /\ log' = log)
        /\ (upc = "unlock" /\ upc' # upc) =>
              (upc' = "recv" /\ ~trayLocked' /\ chan' = chan /\ trayIcon' = trayIcon /\ trayTooltip' = trayTooltip)
        /\ trayLocked' <=> upc' \in {"set_icon", "set_tooltip", "unlock"}
        /\ upc' = "recv" => ~trayLocked'
      ]_vars

\* set_icon failed, set_tooltip was still called and took effect
C7_Witness ==
    /\ upc = "unlock" /\ setIconRes = "Err" /\ setTipRes = "Ok"
    /\ "Failed to update tray icon" \in log
    /\ trayTooltip = tip /\ trayIcon = NONE /\ trayLocked

\* ------------------------------------------------------------ liveness
\* the samples generate_icon accepts
ValidSamples == { v \in SamplePairs : v.percentage <= 100 }

\* icon and tooltip of the tray are the ones of sample v
TrayShows(v) ==
    /\ trayIcon = generate_icon(v.percentage, v.state = "Charging", font, TRUE).icon
    /\ trayTooltip = Some(tooltip_of(v.percentage, v.state))

\* from some point on every device read yields v
SettlesAt(v) == <>[](polled.outcome = "Device" => polled.sample = Some(v))

\* C6: under fair scheduling and with nothing failing, if the first readable
\* device settles at a pair v with percentage in 0..=100, the tray
\* eventually shows the icon and tooltip of v and keeps them.
C6_TrayFollowsBattery ==
    \A v \in ValidSamples : SettlesAt(v) => <>[]TrayShows(v)

\* the tray shows a later sample after an earlier, different one
C6_Witness ==
    /\ TrayShows(Sample(42, "Discharging"))
    /\ last = Some(Sample(42, "Discharging")) /\ cur = last
    /\ chan = <<>> /\ upc = "recv" /\ spc = "sleep"
    /\ polled.sample = last

====
